---- MODULE Spec2Model ----
(***************************************************************************)
(* Verification model of the extractive summarizer core of src/app.py:     *)
(* normalize_whitespace, sentence_split, mmr, summarize_extractive and     *)
(* build_structured_summary.                                               *)
(*                                                                         *)
(* A string is a sequence of characters; a character is a one-letter       *)
(* string, or a name for a character that has no printable form ("CR",     *)
(* "NBSP", "NL", "TAB").  The regular expressions of the source are        *)
(* evaluated on these character sequences, character by character.         *)
(***************************************************************************)
EXTENDS Integers, Sequences, FiniteSets, TLC

VARIABLES
    pc,            \* position of the run that is being modelled
    text,          \* raw_text: the string handed to the function under study
    cleaned,       \* normalize_whitespace(raw_text)
    again,         \* normalize_whitespace applied to cleaned a second time
    split,         \* sentence_split(cleaned): a sequence of strings
    scores_dict,   \* mmr: the score of every sentence index (integer units)
    sim_mat,       \* mmr: the similarity matrix, sim_mat[<<i, j>>] in 1/SimScale
    k,             \* mmr: the number of sentences asked for
    lambda_param,  \* mmr: lambda in tenths
    selected,      \* mmr: the list of selected indices, in selection order
    candidates,    \* mmr: the set of indices not selected yet
    orig_text,     \* summarize: the text read from the uploaded file
    length,        \* summarize: the length setting of the request
    tone,          \* summarize: the tone setting of the request
    sentences,     \* summarize_extractive: sentence_split(cleaned)
    selected_idxs, \* summarize_extractive: the indices mmr returned, sorted
    sents,         \* summarize: the sentences summarize_extractive returned
    structured_data, \* summarize: the result of build_structured_summary
    run,           \* how many runs of the pipeline on this input have ended
    first_run,     \* where the first run ended and what it returned
    library,       \* what mmr returned from the library's answers for this text
    language,      \* summarize: the language setting of the request
    gemini_api_key, \* GEMINI_API_KEY is set
    response,      \* what the translation service did with the request
    best_cat,      \* score_sentence_categories: the category returned
    n_sentences,   \* summarize_extractive: n = len(sentences)
    pagerank       \* textrank_scores: what nx.pagerank did, [raised, pr]

textVars == <<text, cleaned, again, split>>
mmrVars == <<scores_dict, sim_mat, k, lambda_param, selected, candidates>>
pipeVars == <<orig_text, length, tone, sentences, selected_idxs, sents,
              structured_data, run, first_run, library,
              language, gemini_api_key, response>>
fnVars == <<best_cat, n_sentences, pagerank>>
vars == <<pc, textVars, mmrVars, pipeVars, fnVars>>

\* ------------------------------------------------------------------------
\* Bounds of the model
\* ------------------------------------------------------------------------

\* the longest input of the normalizer, counted in units of NormUnits
MaxNormUnits == 5

\* the longest input of the segmenter, counted in units of SplitUnits
MaxSplitUnits == 4

\* the largest number of sentences handed to mmr on its own
MaxN == 3

\* ------------------------------------------------------------------------
\* Characters and generic string helpers
\* ------------------------------------------------------------------------

Upper == {"A","B","C","D","E","F","G","H","I","J","K","L","M",
          "N","O","P","Q","R","S","T","U","V","W","X","Y","Z"}

Lower == {"a","b","c","d","e","f","g","h","i","j","k","l","m",
          "n","o","p","q","r","s","t","u","v","w","x","y","z"}

Digit == {"0","1","2","3","4","5","6","7","8","9"}

\* \s of Python's re on str: blank, tab, newline, carriage return and the
\* no-break space are the ones the model's inputs use
Space == {" ", "TAB", "NL", "CR", "NBSP"}

\* \w of Python's re
WordChar == Upper \cup Lower \cup Digit \cup {"_"}

\* the largest and the smallest element of a non-empty set of integers
SetMax(S) == CHOOSE x \in S : \A y \in S : y <= x
SetMin(S) == CHOOSE x \in S : \A y \in S : x <= y

RECURSIVE Concat(_)
\* the concatenation of a sequence of strings
Concat(ss) == IF ss = <<>> THEN <<>> ELSE Head(ss) \o Concat(Tail(ss))

\* s[i..j], empty when j < i
Slice(s, i, j) == IF j < i THEN <<>> ELSE SubSeq(s, i, j)

\* pat occurs in s at position i
MatchAt(s, pat, i) ==
    /\ i >= 1
    /\ i + Len(pat) - 1 <= Len(s)
    /\ \A j \in 1..Len(pat) : s[i + j - 1] = pat[j]

\* p is a contiguous substring of s
IsSubstring(p, s) ==
    \/ p = <<>>
    \/ \E i \in 1..(Len(s) - Len(p) + 1) :
          /\ s[i] = p[1]
          /\ \A j \in 2..Len(p) : s[i + j - 1] = p[j]

RECURSIVE ReplaceFrom(_, _, _, _)
\* str.replace(pat, rep) on s[i..]: leftmost occurrences, not overlapping
ReplaceFrom(s, pat, rep, i) ==
    LET starts == { j \in i..Len(s) : MatchAt(s, pat, j) } IN
    IF starts = {} THEN Slice(s, i, Len(s))
    ELSE LET j == SetMin(starts) IN
         Slice(s, i, j - 1) \o rep \o ReplaceFrom(s, pat, rep, j + Len(pat))

\* str.replace(pat, rep), pat not empty
Replace(s, pat, rep) == ReplaceFrom(s, pat, rep, 1)

RECURSIVE RunEnd(_, _, _)
\* the last position of the run of characters of class cls that starts at
\* i; i - 1 when s[i] is not in cls (a greedy cls* from position i)
RunEnd(s, cls, i) ==
    IF i <= Len(s) /\ s[i] \in cls THEN RunEnd(s, cls, i + 1) ELSE i - 1

RECURSIVE LStrip(_)
LStrip(s) == IF s # <<>> /\ Head(s) \in Space THEN LStrip(Tail(s)) ELSE s

RECURSIVE RStrip(_)
RStrip(s) ==
    IF s # <<>> /\ s[Len(s)] \in Space THEN RStrip(SubSeq(s, 1, Len(s) - 1)) ELSE s

\* str.strip()
Strip(s) == RStrip(LStrip(s))

\* ------------------------------------------------------------------------
\* normalize_whitespace
\* ------------------------------------------------------------------------

PageWord == <<"P","a","g","e"," ">>
OfWord == <<" ","o","f"," ">>

\* the position after a match of  Page \d+ of \d+  that starts at i, or 0
\* when the pattern does not match at i.  Both \d+ are greedy; giving back
\* digits never helps, because the character that has to follow is a blank.
PageMatchEnd(s, i) ==
    IF ~MatchAt(s, PageWord, i) THEN 0
    ELSE LET d1 == RunEnd(s, Digit, i + 5) IN
         IF d1 < i + 5 \/ ~MatchAt(s, OfWord, d1 + 1) THEN 0
         ELSE LET d2 == RunEnd(s, Digit, d1 + 5) IN
              IF d2 < d1 + 5 THEN 0 ELSE d2 + 1

RECURSIVE SubPageFrom(_, _)
\* re.sub(r'Page \d+ of \d+', '', s) on s[i..]
SubPageFrom(s, i) ==
    LET starts == { j \in i..Len(s) : PageMatchEnd(s, j) > 0 } IN
    IF starts = {} THEN Slice(s, i, Len(s))
    ELSE LET j == SetMin(starts) IN
         Slice(s, i, j - 1) \o SubPageFrom(s, PageMatchEnd(s, j))

RECURSIVE CollapseFrom(_, _)
\* re.sub(r'\s+', ' ', s) on s[i..]
CollapseFrom(s, i) ==
    LET starts == { j \in i..Len(s) : s[j] \in Space } IN
    IF starts = {} THEN Slice(s, i, Len(s))
    ELSE LET j == SetMin(starts) IN
         Slice(s, i, j - 1) \o <<" ">> \o CollapseFrom(s, RunEnd(s, Space, j) + 1)

normalize_whitespace(s) ==
    LET t1 == Replace(Replace(s, <<"CR">>, <<" ">>), <<"NBSP">>, <<" ">>)
        t2 == SubPageFrom(t1, 1)
        t3 == CollapseFrom(t2, 1)
    IN  Strip(t3)

\* ------------------------------------------------------------------------
\* sentence_split
\* ------------------------------------------------------------------------

\* the mask marker <DOT>
DOT == <<"<","D","O","T",">">>

\* the abbreviations dictionary in insertion order (the keys "i.e." and
\* "e.g." that are written twice keep their first position): <<abb, mask>>
abbreviations ==
    << << <<"D","r",".">>,                         <<"D","r">> \o DOT >>,
       << <<"M","r",".">>,                         <<"M","r">> \o DOT >>,
       << <<"M","s",".">>,                         <<"M","s">> \o DOT >>,
       << <<"M","r","s",".">>,                     <<"M","r","s">> \o DOT >>,
       << <<"F","i","g",".">>,                     <<"F","i","g">> \o DOT >>,
       << <<"N","o",".">>,                         <<"N","o">> \o DOT >>,
       << <<"V","o","l",".">>,                     <<"V","o","l">> \o DOT >>,
       << <<"a","p","p","r","o","x",".">>,         <<"a","p","p","r","o","x">> \o DOT >>,
       << <<"v","s",".">>,                         <<"v","s">> \o DOT >>,
       << <<"e",".","g",".">>,                     <<"e">> \o DOT \o <<"g">> \o DOT >>,
       << <<"i",".","e",".">>,                     <<"i">> \o DOT \o <<"e">> \o DOT >>,
       << <<"e","t"," ","a","l",".">>,             <<"e","t","_","a","l">> \o DOT >> >>

RECURSIVE MaskFrom(_, _)
\* for abb, mask in abbreviations.items(): text = text.replace(abb, mask)
MaskFrom(s, a) ==
    IF a > Len(abbreviations) THEN s
    ELSE MaskFrom(Replace(s, abbreviations[a][1], abbreviations[a][2]), a + 1)

RECURSIVE UnmaskFrom(_, _)
\* for abb, mask in abbreviations.items(): p = p.replace(mask, abb)
UnmaskFrom(s, a) ==
    IF a > Len(abbreviations) THEN s
    ELSE UnmaskFrom(Replace(s, abbreviations[a][2], abbreviations[a][1]), a + 1)

RECURSIVE NewlinesFrom(_, _)
\* re.sub(r"\n+", " ", s) on s[i..]
NewlinesFrom(s, i) ==
    LET starts == { j \in i..Len(s) : s[j] = "NL" } IN
    IF starts = {} THEN Slice(s, i, Len(s))
    ELSE LET j == SetMin(starts) IN
         Slice(s, i, j - 1) \o <<" ">> \o NewlinesFrom(s, RunEnd(s, {"NL"}, j) + 1)

\* the sentence-ending punctuation marks
EndMarks == {".", "?", "!"}

\* the lookahead class [A-Z"\'"("] of the split pattern
SplitAhead == Upper \cup {"\"", "'", "("}

\* the position after a match of the split pattern that starts at i, or 0.
\*   (?<!\w\.\w.)(?<![A-Z][a-z]\.)(?<=\.|\?|\!)\s+(?=[A-Z"\'"("])
\* \s+ is greedy and a shorter run leaves a blank under the lookahead, so
\* the match is the whole run of blanks or nothing.
SplitMatchEnd(s, i) ==
    IF ~(i >= 2 /\ i <= Len(s) /\ s[i] \in Space /\ s[i - 1] \in EndMarks) THEN 0
    ELSE IF i >= 5 /\ s[i - 4] \in WordChar /\ s[i - 3] = "."
                   /\ s[i - 2] \in WordChar /\ s[i - 1] # "NL" THEN 0
    ELSE IF i >= 4 /\ s[i - 3] \in Upper /\ s[i - 2] \in Lower /\ s[i - 1] = "." THEN 0
    ELSE LET e == RunEnd(s, Space, i) IN
         IF e + 1 <= Len(s) /\ s[e + 1] \in SplitAhead THEN e + 1 ELSE 0

RECURSIVE SplitFrom(_, _, _)
\* re.split(pattern, s): the pieces of s[from..] between the matches; the
\* search starts at position i
SplitFrom(s, from, i) ==
    LET starts == { j \in i..Len(s) : SplitMatchEnd(s, j) > 0 } IN
    IF starts = {} THEN << Slice(s, from, Len(s)) >>
    ELSE LET j == SetMin(starts)
             e == SplitMatchEnd(s, j)
         IN  << Slice(s, from, j - 1) >> \o SplitFrom(s, e, e)

\* the shortest candidate that is kept: len(p) < 20 is dropped
MinSentenceLen == 20

\* re.match(r'^[0-9\.\s]+$', p) on a stripped p
NumbersOnly(p) ==
    /\ p # <<>>
    /\ \A j \in 1..Len(p) : p[j] \in Digit \cup {"."} \cup Space

RECURSIVE KeepFrom(_, _)
\* the loop over parts: unmask, strip, filter
KeepFrom(parts, j) ==
    IF j > Len(parts) THEN <<>>
    ELSE LET p == Strip(UnmaskFrom(parts[j], 1)) IN
         IF Len(p) < MinSentenceLen \/ NumbersOnly(p)
         THEN KeepFrom(parts, j + 1)
         ELSE <<p>> \o KeepFrom(parts, j + 1)

sentence_split(s) ==
    LET t1 == MaskFrom(NewlinesFrom(s, 1), 1)
    IN  KeepFrom(SplitFrom(t1, 1, 1), 1)

\* ------------------------------------------------------------------------
\* mmr
\*
\* Scores are integers, similarities are multiples of 1/SimScale and lambda
\* is given in tenths, so that every comparison of the source is a
\* comparison of integers.
\* ------------------------------------------------------------------------

\* similarities are sim_mat[<<i, j>>] / SimScale
SimScale == 1

\* lambda is lambda_param / LambdaScale
LambdaScale == 10

\* best_idx = None
None == -1

\* best_mmr = -1e9
BestMmrInit == -1000000000

\* sim_mat.shape[0]
Shape0(sim) == Cardinality({ p[1] : p \in DOMAIN sim })

\* scores_dict.get(i, 0.0)
Get(d, i) == IF i \in DOMAIN d THEN d[i] ELSE 0

RECURSIVE SortedList(_)
\* the elements of a set of integers in ascending order: sorted(S), and also
\* list(S) for a set of small non-negative integers, which CPython stores
\* at the slot of its value and iterates slot by slot
SortedList(S) ==
    IF S = {} THEN <<>> ELSE <<SetMin(S)>> \o SortedList(S \ {SetMin(S)})

\* scores = np.array([scores_dict.get(i, 0.0) for i in indices])
ScoreArray(sd, sim) == [i \in 0..(Shape0(sim) - 1) |-> Get(sd, i)]

\* the first score taken for the largest one
ArrayMaxFirst(a) == a[0]

\* scores.max()
ArrayMax(a) == SetMax({ a[i] : i \in DOMAIN a })

\* scores.min()
ArrayMin(a) == SetMin({ a[i] : i \in DOMAIN a })

\* if scores.max() > 0:
\*     scores = (scores - scores.min()) / (scores.max() - scores.min() + 1e-12)
\* The array after these two lines, as the record sc: the score of i is
\* sc.num[i] / (sc.den + 1e-12) when sc.eps holds, and sc.num[i] / sc.den
\* otherwise.  With a range of 0 every numerator is 0 and the quotient
\* 0 / 1e-12 is 0, written 0 / 1 here.
NormalizeScores(a) ==
    LET mx == ArrayMax(a)
        mn == ArrayMin(a)
    IN  [ num |-> [i \in DOMAIN a |-> IF mx > 0 THEN a[i] - mn ELSE a[i]],
          den |-> IF mx > 0 /\ mx > mn THEN mx - mn ELSE 1,
          eps |-> mx > 0 /\ mx > mn ]

\* a redundancy penalty that is left out: sim_to_selected stays 0.0
SimToSelectedZero(sim, sel, i) == 0

\* sim_to_selected: 0.0, or max([sim_mat[i][j] for j in selected])
SimToSelected(sim, sel, i) ==
    IF sel = <<>> THEN 0
    ELSE SetMax({ sim[<<i, sel[j]>>] : j \in 1..Len(sel) })

\* curr_mmr with the two weights exchanged
CurrMmrSwapped(sc, sim, lam, sel, i) ==
    (LambdaScale - lam) * sc.num[i] * SimScale
      - lam * SimToSelected(sim, sel, i) * sc.den

\* curr_mmr = lambda * scores[i] - (1 - lambda) * sim_to_selected, times the
\* positive number LambdaScale * sc.den * SimScale
CurrMmr(sc, sim, lam, sel, i) ==
    lam * sc.num[i] * SimScale
      - (LambdaScale - lam) * SimToSelected(sim, sel, i) * sc.den

\* what the 1e-12 of the denominator takes away from curr_mmr, in units that
\* are smaller than any difference between two values of CurrMmr: it
\* decides between candidates whose CurrMmr are equal, and only then
EpsLoss(sc, lam, i) == IF sc.eps THEN lam * sc.num[i] ELSE 0

\* curr_mmr of candidate i as the pair the comparisons are made on
MmrKey(sc, sim, lam, sel, i) ==
    << CurrMmr(sc, sim, lam, sel, i), 0 - EpsLoss(sc, lam, i) >>

\* x > y on two such pairs
KeyGreater(x, y) == x[1] > y[1] \/ (x[1] = y[1] /\ x[2] > y[2])

\* the comparison with >= in the place of >: the last of several equal
\* candidates wins
ImprovesOrTies(key, best) ==
    IF best[1] = None THEN key[1] > BestMmrInit ELSE ~KeyGreater(best[2], key)

\* if curr_mmr > best_mmr, where best is <<best_idx, best key>> and the key
\* of best_idx = None is best_mmr = -1e9.  CurrMmr is curr_mmr times a
\* number >= 1, so a CurrMmr above -1e9 is a curr_mmr above -1e9.
Improves(key, best) ==
    IF best[1] = None THEN key[1] > BestMmrInit ELSE KeyGreater(key, best[2])

RECURSIVE ScanCandidates(_, _, _, _, _, _)
\* for i in list(candidates): ... keeps the first i with the largest curr_mmr
\* (the running best is carried as a value from one candidate to the next)
ScanCandidates(sc, sim, lam, sel, cs, best) ==
    IF cs = <<>> THEN best[1]
    ELSE CHOOSE r \in
           { ScanCandidates(sc, sim, lam, sel, rest, nb) :
               rest \in { Tail(cs) },
               nb \in { LET key == MmrKey(sc, sim, lam, sel, Head(cs)) IN
                        IF Improves(key, best) THEN <<Head(cs), key>>
                        ELSE best } } : TRUE

\* an inner loop that never assigns best_idx
BestIdxNone(sd, sim, lam, sel, cands) == None

\* best_idx after the inner loop of one iteration
BestIdx(sd, sim, lam, sel, cands) ==
    CHOOSE r \in
      { ScanCandidates(sc, sim, lam, sel, cs, <<None, <<BestMmrInit, 0>> >>) :
          sc \in { NormalizeScores(ScoreArray(sd, sim)) },
          cs \in { SortedList(cands) } } : TRUE

\* a loop condition that lets one iteration too many through
LoopCondOffByOne(sel, kk, cands) == Len(sel) <= kk /\ cands # {}

\* while len(selected) < k and candidates
LoopCond(sel, kk, cands) == Len(sel) < kk /\ cands # {}

\* a loop body that forgets to take the chosen index out of the candidates
RemoveForgotten(cands, b) == cands

\* candidates.remove(best_idx)
RemoveCandidate(cands, b) == cands \ {b}

RECURSIVE MmrLoop(_, _, _, _, _, _)
\* the while loop of mmr from the state (sel, cands) on
MmrLoop(sd, sim, kk, lam, sel, cands) ==
    IF LoopCond(sel, kk, cands)
    THEN LET b == BestIdx(sd, sim, lam, sel, cands) IN
         IF b # None
         THEN MmrLoop(sd, sim, kk, lam, Append(sel, b), RemoveCandidate(cands, b))
         ELSE sel
    ELSE sel

\* mmr(scores_dict, sim_mat, k, lambda_param)
mmr(sd, sim, kk, lam) == MmrLoop(sd, sim, kk, lam, <<>>, 0..(Shape0(sim) - 1))

\* no call of mmr is in progress
MmrIdle ==
    /\ scores_dict = <<>>
    /\ sim_mat = <<>>
    /\ k = 0
    /\ lambda_param = 0
    /\ selected = <<>>
    /\ candidates = {}

\* structured_data = {}
EmptyData == [abstract |-> <<>>, sections |-> <<>>, tone |-> ""]

\* no run has ended yet
NoRun == [pc |-> "", data |-> EmptyData]

\* the libraries have not been asked about this text yet
NoAnswer == <<None>>

\* the pipeline has not been started before
RunIdle ==
    /\ run = 0
    /\ first_run = NoRun
    /\ library = NoAnswer

\* the translation service has not been asked
NotCalled == "not called"

\* no translation is under study
TransIdle ==
    /\ language = ""
    /\ gemini_api_key = FALSE
    /\ response = NotCalled

\* no request is being served
PipeIdle ==
    /\ orig_text = <<>>
    /\ length = ""
    /\ tone = ""
    /\ sentences = <<>>
    /\ selected_idxs = <<>>
    /\ sents = <<>>
    /\ structured_data = EmptyData
    /\ RunIdle
    /\ TransIdle

\* no function is under study on its own
FnIdle ==
    /\ best_cat = ""
    /\ n_sentences = 0
    /\ pagerank = [raised |-> FALSE, pr |-> <<>>]

\* ------------------------------------------------------------------------
\* clean_for_simple_tone
\* ------------------------------------------------------------------------

UpperSeq == <<"A","B","C","D","E","F","G","H","I","J","K","L","M",
              "N","O","P","Q","R","S","T","U","V","W","X","Y","Z">>

LowerSeq == <<"a","b","c","d","e","f","g","h","i","j","k","l","m",
              "n","o","p","q","r","s","t","u","v","w","x","y","z">>

\* c.lower() and c.upper() of one character
LowerChar(c) ==
    IF c \in Upper THEN LowerSeq[CHOOSE j \in 1..26 : UpperSeq[j] = c] ELSE c
UpperChar(c) ==
    IF c \in Lower THEN UpperSeq[CHOOSE j \in 1..26 : LowerSeq[j] = c] ELSE c

\* s.lower()
LowerStr(s) == [j \in 1..Len(s) |-> LowerChar(s[j])]

\* the position after a match of  \[[\d,\-\s]+\]  that starts at i, or 0
CitationMatchEnd(s, i) ==
    IF s[i] # "[" THEN 0
    ELSE LET e == RunEnd(s, Digit \cup {",", "-"} \cup Space, i + 1) IN
         IF e >= i + 1 /\ e + 1 <= Len(s) /\ s[e + 1] = "]" THEN e + 2 ELSE 0

\* the position after a match of  \([^)]*\)  that starts at i, or 0
ParenMatchEnd(s, i) ==
    IF s[i] # "(" THEN 0
    ELSE LET close == { j \in (i + 1)..Len(s) : s[j] = ")" } IN
         IF close = {} THEN 0 ELSE SetMin(close) + 1

\* \b at position i: exactly one of s[i - 1] and s[i] is a word character
WordBoundary(s, i) ==
    (i >= 2 /\ i - 1 <= Len(s) /\ s[i - 1] \in WordChar)
        # (i >= 1 /\ i <= Len(s) /\ s[i] \in WordChar)

\* the position after a match of  \bconn\b[,\s]*  (re.IGNORECASE) that
\* starts at i, or 0
ConnectorMatchEnd(s, conn, i) ==
    IF /\ WordBoundary(s, i)
       /\ i + Len(conn) - 1 <= Len(s)
       /\ \A j \in 1..Len(conn) : LowerChar(s[i + j - 1]) = conn[j]
       /\ WordBoundary(s, i + Len(conn))
    THEN RunEnd(s, {","} \cup Space, i + Len(conn)) + 1
    ELSE 0

RECURSIVE SubCitations(_, _)
\* re.sub(r'\[[\d,\-\s]+\]', '', s) on s[i..]
SubCitations(s, i) ==
    LET starts == { j \in i..Len(s) : CitationMatchEnd(s, j) > 0 } IN
    IF starts = {} THEN Slice(s, i, Len(s))
    ELSE LET j == SetMin(starts) IN
         Slice(s, i, j - 1) \o SubCitations(s, CitationMatchEnd(s, j))

RECURSIVE SubParens(_, _)
\* re.sub(r'\([^)]*\)', '', s) on s[i..]
SubParens(s, i) ==
    LET starts == { j \in i..Len(s) : ParenMatchEnd(s, j) > 0 } IN
    IF starts = {} THEN Slice(s, i, Len(s))
    ELSE LET j == SetMin(starts) IN
         Slice(s, i, j - 1) \o SubParens(s, ParenMatchEnd(s, j))

RECURSIVE SubConnector(_, _, _)
\* re.sub(fr'\b{conn}\b[,\s]*', '', s, flags=re.IGNORECASE) on s[i..]
SubConnector(s, conn, i) ==
    LET starts == { j \in i..Len(s) : ConnectorMatchEnd(s, conn, j) > 0 } IN
    IF starts = {} THEN Slice(s, i, Len(s))
    ELSE LET j == SetMin(starts) IN
         Slice(s, i, j - 1) \o SubConnector(s, conn, ConnectorMatchEnd(s, conn, j))

connectors ==
    << <<"h","o","w","e","v","e","r">>,
       <<"t","h","e","r","e","f","o","r","e">>,
       <<"f","u","r","t","h","e","r","m","o","r","e">>,
       <<"m","o","r","e","o","v","e","r">>,
       <<"t","h","u","s">>,
       <<"h","e","n","c","e">>,
       <<"c","o","n","s","e","q","u","e","n","t","l","y">>,
       <<"a","c","c","o","r","d","i","n","g","l","y">>,
       <<"n","e","v","e","r","t","h","e","l","e","s","s">>,
       <<"n","o","n","e","t","h","e","l","e","s","s">>,
       <<"i","n"," ","c","o","n","c","l","u","s","i","o","n">>,
       <<"i","n"," ","s","u","m","m","a","r","y">>,
       <<"t","o"," ","c","o","n","c","l","u","d","e">>,
       <<"a","s"," ","a"," ","r","e","s","u","l","t">>,
       <<"o","n"," ","t","h","e"," ","o","t","h","e","r"," ","h","a","n","d">>,
       <<"i","n"," ","c","o","n","t","r","a","s","t">> >>

RECURSIVE SubConnectorsFrom(_, _)
\* for conn in connectors: text = re.sub(...)
SubConnectorsFrom(s, c) ==
    IF c > Len(connectors) THEN s
    ELSE SubConnectorsFrom(SubConnector(s, connectors[c], 1), c + 1)

clean_for_simple_tone(s) ==
    LET t1 == SubCitations(s, 1)
        t2 == SubParens(t1, 1)
        t3 == SubConnectorsFrom(t2, 1)
        t4 == CollapseFrom(t3, 1)
    IN  Strip(t4)

\* ------------------------------------------------------------------------
\* score_sentence_categories
\* ------------------------------------------------------------------------

\* <<category, keywords>> in the order of the dictionary
POLICY_KEYWORDS ==
    <<
       << "key goals",
          << <<"a","i","m">>,
             <<"g","o","a","l">>,
             <<"o","b","j","e","c","t","i","v","e">>,
             <<"t","a","r","g","e","t">>,
             <<"a","c","h","i","e","v","e">>,
             <<"r","e","d","u","c","e">>,
             <<"i","n","c","r","e","a","s","e">>,
             <<"c","o","v","e","r","a","g","e">>,
             <<"m","o","r","t","a","l","i","t","y">>,
             <<"r","a","t","e">>,
             <<"%">>,
             <<"2","0","2","5">>,
             <<"2","0","3","0">>,
             <<"v","i","s","i","o","n">>,
             <<"m","i","s","s","i","o","n">>,
             <<"o","u","t","c","o","m","e">>,
             <<"e","x","p","e","c","t","a","n","c","y">>,
             <<"e","l","i","m","i","n","a","t","e">>,
             <<"i","m","p","r","o","v","e">>,
             <<"e","n","h","a","n","c","e">> >> >>,
       << "policy principles",
          << <<"p","r","i","n","c","i","p","l","e">>,
             <<"e","q","u","i","t","y">>,
             <<"u","n","i","v","e","r","s","a","l">>,
             <<"r","i","g","h","t">>,
             <<"a","c","c","e","s","s">>,
             <<"a","c","c","o","u","n","t","a","b","i","l","i","t","y">>,
             <<"t","r","a","n","s","p","a","r","e","n","c","y">>,
             <<"i","n","c","l","u","s","i","v","e">>,
             <<"p","a","t","i","e","n","t","-","c","e","n","t","e","r","e","d">>,
             <<"q","u","a","l","i","t","y">>,
             <<"e","t","h","i","c","s">>,
             <<"v","a","l","u","e">>,
             <<"i","n","t","e","g","r","i","t","y">>,
             <<"h","o","l","i","s","t","i","c">>,
             <<"s","u","s","t","a","i","n","a","b","l","e">>,
             <<"e","q","u","i","t","a","b","l","e">> >> >>,
       << "service delivery",
          << <<"h","o","s","p","i","t","a","l">>,
             <<"p","r","i","m","a","r","y"," ","c","a","r","e">>,
             <<"s","e","c","o","n","d","a","r","y"," ","c","a","r","e">>,
             <<"t","e","r","t","i","a","r","y">>,
             <<"r","e","f","e","r","r","a","l">>,
             <<"c","l","i","n","i","c">>,
             <<"h","e","a","l","t","h"," ","c","e","n","t","e","r">>,
             <<"w","e","l","l","n","e","s","s">>,
             <<"a","m","b","u","l","a","n","c","e">>,
             <<"e","m","e","r","g","e","n","c","y">>,
             <<"d","r","u","g">>,
             <<"d","i","a","g","n","o","s","t","i","c">>,
             <<"i","n","f","r","a","s","t","r","u","c","t","u","r","e">>,
             <<"b","e","d">>,
             <<"s","u","p","p","l","y"," ","c","h","a","i","n">>,
             <<"l","o","g","i","s","t","i","c","s">>,
             <<"f","a","c","i","l","i","t","y">> >> >>,
       << "prevention & promotion",
          << <<"p","r","e","v","e","n","t">>,
             <<"s","a","n","i","t","a","t","i","o","n">>,
             <<"n","u","t","r","i","t","i","o","n">>,
             <<"i","m","m","u","n","i","z","a","t","i","o","n">>,
             <<"v","a","c","c","i","n","e">>,
             <<"t","o","b","a","c","c","o">>,
             <<"a","l","c","o","h","o","l">>,
             <<"h","y","g","i","e","n","e">>,
             <<"a","w","a","r","e","n","e","s","s">>,
             <<"l","i","f","e","s","t","y","l","e">>,
             <<"p","o","l","l","u","t","i","o","n">>,
             <<"w","a","t","e","r">>,
             <<"s","c","r","e","e","n","i","n","g">>,
             <<"d","i","e","t">>,
             <<"e","x","e","r","c","i","s","e">>,
             <<"c","o","m","m","u","n","i","t","y">>,
             <<"c","a","m","p","a","i","g","n">>,
             <<"e","d","u","c","a","t","i","o","n">> >> >>,
       << "human resources",
          << <<"d","o","c","t","o","r">>,
             <<"n","u","r","s","e">>,
             <<"s","t","a","f","f">>,
             <<"t","r","a","i","n","i","n","g">>,
             <<"w","o","r","k","f","o","r","c","e">>,
             <<"r","e","c","r","u","i","t">>,
             <<"m","e","d","i","c","a","l"," ","c","o","l","l","e","g","e">>,
             <<"p","a","r","a","m","e","d","i","c">>,
             <<"s","a","l","a","r","y">>,
             <<"i","n","c","e","n","t","i","v","e">>,
             <<"c","a","p","a","c","i","t","y"," ","b","u","i","l","d","i","n","g">>,
             <<"s","k","i","l","l">>,
             <<"h","r","h">>,
             <<"d","e","p","l","o","y","m","e","n","t">>,
             <<"s","p","e","c","i","a","l","i","s","t">>,
             <<"p","r","o","f","e","s","s","i","o","n","a","l","s">>,
             <<"e","x","p","e","r","t","i","s","e">> >> >>,
       << "financing & costs",
          << <<"f","u","n","d">>,
             <<"b","u","d","g","e","t">>,
             <<"f","i","n","a","n","c","e">>,
             <<"e","x","p","e","n","d","i","t","u","r","e">>,
             <<"c","o","s","t">>,
             <<"i","n","s","u","r","a","n","c","e">>,
             <<"p","r","i","v","a","t","e">>,
             <<"p","a","r","t","n","e","r","s","h","i","p">>,
             <<"p","p","p">>,
             <<"o","u","t","-","o","f","-","p","o","c","k","e","t">>,
             <<"r","e","i","m","b","u","r","s","e","m","e","n","t">>,
             <<"a","l","l","o","c","a","t","i","o","n">>,
             <<"s","p","e","n","d","i","n","g">>,
             <<"g","d","p">>,
             <<"t","a","x">>,
             <<"c","l","a","i","m">>,
             <<"r","e","v","e","n","u","e">>,
             <<"i","n","v","e","s","t","m","e","n","t">> >> >>,
       << "digital health",
          << <<"d","i","g","i","t","a","l">>,
             <<"t","e","c","h","n","o","l","o","g","y">>,
             <<"d","a","t","a">>,
             <<"r","e","c","o","r","d">>,
             <<"e","h","r">>,
             <<"e","m","r">>,
             <<"t","e","l","e","m","e","d","i","c","i","n","e">>,
             <<"m","o","b","i","l","e">>,
             <<"a","p","p">>,
             <<"i","n","f","o","r","m","a","t","i","o","n"," ","s","y","s","t","e","m">>,
             <<"c","y","b","e","r">>,
             <<"i","n","t","e","r","o","p","e","r","a","b","i","l","i","t","y">>,
             <<"p","o","r","t","a","l">>,
             <<"o","n","l","i","n","e">>,
             <<"s","o","f","t","w","a","r","e">>,
             <<"a","i">>,
             <<"e","l","e","c","t","r","o","n","i","c">>,
             <<"m","o","n","i","t","o","r","i","n","g">> >> >>
    >>

\* the category a sentence without any keyword is given
Other == "other"

\* one of the years 2020..2059 standing as a word:  \b20[2-5][0-9]\b
YearAt(s, i) ==
    /\ i + 3 <= Len(s)
    /\ WordBoundary(s, i)
    /\ s[i] = "2" /\ s[i + 1] = "0"
    /\ s[i + 2] \in {"2", "3", "4", "5"}
    /\ s[i + 3] \in Digit
    /\ WordBoundary(s, i + 4)

\* the bonus condition of line 1133
HasGoalBonus(sl) ==
    \/ \E i \in 1..Len(sl) : sl[i] = "%"
    \/ \E i \in 1..Len(sl) : YearAt(sl, i)

\* scores[cat] after the keyword loop and the bonus, for category number c
CategoryScore(sl, c) ==
    2 * Cardinality({ j \in 1..Len(POLICY_KEYWORDS[c][2]) :
                        IsSubstring(POLICY_KEYWORDS[c][2][j], sl) })
      + (IF c = 1 /\ HasGoalBonus(sl) THEN 2 ELSE 0)

\* the last category with the top score
MaxKeyLast(scores) ==
    CHOOSE c \in DOMAIN scores :
        /\ \A d \in DOMAIN scores : scores[d] <= scores[c]
        /\ \A d \in DOMAIN scores : scores[d] = scores[c] => d <= c

\* max(scores, key=scores.get): the first category with the top score, in
\* the order of the dictionary
MaxKey(scores) ==
    CHOOSE c \in DOMAIN scores :
        /\ \A d \in DOMAIN scores : scores[d] <= scores[c]
        /\ \A d \in DOMAIN scores : scores[d] = scores[c] => c <= d

score_sentence_categories(sentence) ==
    LET sl == LowerStr(sentence)
        scores == [c \in 1..Len(POLICY_KEYWORDS) |-> CategoryScore(sl, c)]
        best == MaxKey(scores)
    IN  IF scores[best] = 0 THEN Other ELSE POLICY_KEYWORDS[best][1]

\* ------------------------------------------------------------------------
\* build_structured_summary
\* ------------------------------------------------------------------------

RECURSIVE Join(_, _)
\* sep.join(ss)
Join(ss, sep) ==
    IF ss = <<>> THEN <<>>
    ELSE IF Len(ss) = 1 THEN ss[1]
    ELSE ss[1] \o sep \o Join(Tail(ss), sep)

\* xs[:m]
Take(xs, m) == SubSeq(xs, 1, IF Len(xs) < m THEN Len(xs) ELSE m)

RECURSIVE Filter(_, _)
\* the elements of xs that are in the set S, in their order
Filter(xs, S) ==
    IF xs = <<>> THEN <<>>
    ELSE IF Head(xs) \in S THEN <<Head(xs)>> \o Filter(Tail(xs), S)
    ELSE Filter(Tail(xs), S)

RECURSIVE SimpleSplitFrom(_, _, _)
\* re.split(r'(?<=[.!?])\s+', s): the pieces of s[from..]; the search
\* starts at position i
SimpleSplitFrom(s, from, i) ==
    LET starts == { j \in i..Len(s) :
                      j >= 2 /\ s[j - 1] \in EndMarks /\ s[j] \in Space } IN
    IF starts = {} THEN << Slice(s, from, Len(s)) >>
    ELSE LET j == SetMin(starts)
             e == RunEnd(s, Space, j) + 1
         IN  << Slice(s, from, j - 1) >> \o SimpleSplitFrom(s, e, e)

\* the loop of lines 1276-1280 on sentence number i (counted from 0)
LowerFirst(part, i) ==
    LET sent == Strip(part) IN
    IF i > 0 /\ sent[1] \notin Lower
    THEN <<LowerChar(sent[1])>> \o Tail(sent)
    ELSE sent

\* simple_text[0].upper() + simple_text[1:]
UpperFirst(s) == <<UpperChar(s[1])>> \o Tail(s)

\* the tone == "simple" branch
SimpleSummary(summary_sentences) ==
    LET joined == clean_for_simple_tone(Join(summary_sentences, <<" ">>))
        parts == SimpleSplitFrom(joined, 1, 1)
        simple_text ==
            IF Len(parts) > 1
            THEN UpperFirst(Join([j \in 1..Len(parts) |-> LowerFirst(parts[j], j - 1)],
                                 <<" ">>))
            ELSE joined
    IN  [abstract |-> simple_text, sections |-> <<>>, tone |-> "simple"]

\* section_titles in the order of the dictionary: <<category, title>>
section_titles ==
    << <<"key goals", "Key Goals & Targets">>,
       <<"policy principles", "Policy Principles & Vision">>,
       <<"service delivery", "Healthcare Delivery Systems">>,
       <<"prevention & promotion", "Prevention & Wellness Programs">>,
       <<"human resources", "Healthcare Workforce Development">>,
       <<"financing & costs", "Financing & Resource Allocation">>,
       <<"digital health", "Digital Health Initiatives">>,
       <<"other", "Additional Observations">> >>

\* "The plan needs care."
PlanSentence ==
    <<"T","h","e"," ","p","l","a","n"," ","n","e","e","d","s"," ","c","a","r","e",".">>

\* "Our goal is 5% by 2030."
GoalSentence ==
    <<"O","u","r"," ","g","o","a","l"," ","i","s"," ","5","%"," ","b","y"," ",
      "2","0","3","0",".">>

\* "(a) The staff, however, needs care."
StaffSentence ==
    <<"(","a",")"," ","T","h","e"," ","s","t","a","f","f",","," ",
      "h","o","w","e","v","e","r",","," ","n","e","e","d","s"," ","c","a","r","e",".">>

\* the sentences the documents of the pipeline are made of; each is a
\* sentence sentence_split returns, and sentence_split takes a text that
\* joins them with blanks apart into exactly these sentences
SentencePool == { PlanSentence, GoalSentence, StaffSentence }

\* the results of the two per-sentence functions on the pool, computed once
PoolCategory == [s \in SentencePool |-> score_sentence_categories(s)]
PoolCleaned == [s \in SentencePool |-> clean_for_simple_tone(s)]

\* category = score_sentence_categories(s)
CategoryOf(s) ==
    IF s \in DOMAIN PoolCategory THEN PoolCategory[s] ELSE score_sentence_categories(s)

\* clean_s = clean_for_simple_tone(s)
CleanedOf(s) ==
    IF s \in DOMAIN PoolCleaned THEN PoolCleaned[s] ELSE clean_for_simple_tone(s)

\* cat_map[category]: the sentences of the category, in their order
CatMap(summary_sentences, category) ==
    Filter(summary_sentences,
           { x \in { summary_sentences[j] : j \in 1..Len(summary_sentences) } :
               CategoryOf(x) = category })

\* the loop of lines 1313-1317 without the test on seen
UniqueCleanedAll(ss, seen) ==
    LET Cleaned == [j \in 1..Len(ss) |-> CleanedOf(ss[j])] IN
    seen \o Filter(Cleaned, { Cleaned[j] : j \in 1..Len(ss) } \ { <<>> })

RECURSIVE UniqueCleaned(_, _)
\* the loop of lines 1313-1317: the cleaned sentences that are not empty,
\* each once, first seen first; seen is the sequence built so far
UniqueCleaned(ss, seen) ==
    IF ss = <<>> THEN seen
    ELSE LET clean_s == CleanedOf(Head(ss)) IN
         IF clean_s # <<>> /\ clean_s \notin { seen[j] : j \in 1..Len(seen) }
         THEN UniqueCleaned(Tail(ss), Append(seen, clean_s))
         ELSE UniqueCleaned(Tail(ss), seen)

RECURSIVE SectionsFrom(_, _)
\* the loop of lines 1309-1320 from entry t of section_titles on
SectionsFrom(summary_sentences, t) ==
    IF t > Len(section_titles) THEN <<>>
    ELSE LET unique_sents ==
                 UniqueCleaned(CatMap(summary_sentences, section_titles[t][1]), <<>>)
         IN  IF unique_sents # <<>>
             THEN << [title |-> section_titles[t][2], bullets |-> unique_sents] >>
                      \o SectionsFrom(summary_sentences, t + 1)
             ELSE SectionsFrom(summary_sentences, t + 1)

\* abstract = clean_for_simple_tone(" ".join(abstract_candidates[:3]))
AbstractOf(cands) ==
    IF Len(cands) = 1 THEN CleanedOf(cands[1])
    ELSE clean_for_simple_tone(Join(cands, <<" ">>))

\* the academic branch
AcademicSummary(summary_sentences) ==
    LET from_cats == Take(CatMap(summary_sentences, "key goals"), 2)
                       \o Take(CatMap(summary_sentences, "policy principles"), 2)
        abstract_candidates ==
            IF from_cats = <<>> /\ summary_sentences # <<>>
            THEN Take(summary_sentences, 3) ELSE from_cats
    IN  [abstract |-> AbstractOf(Take(abstract_candidates, 3)),
         sections |-> SectionsFrom(summary_sentences, 1),
         tone |-> "academic"]

build_structured_summary(summary_sentences, tn) ==
    IF tn = "simple" THEN SimpleSummary(summary_sentences)
    ELSE AcademicSummary(summary_sentences)

\* ------------------------------------------------------------------------
\* Inputs of the normalizer: every concatenation of at most MaxNormUnits
\* of these pieces of text
\* ------------------------------------------------------------------------

NormUnits == { <<"P","a","g","e">>,
               <<"P","a","g","e"," ","1"," ","o","f"," ">>,
               <<" ","o","f"," ">>,
               <<"1">>, <<"x">>, <<" ">>, <<"NL">>, <<"CR">> }

UnitStrings(units, max) ==
    { Concat(us) : us \in UNION { [1..m -> units] : m \in 0..max } }

NormInputs(max) == UnitStrings(NormUnits, max)

\* ------------------------------------------------------------------------
\* SpecNorm: the normalizer applied once and then once more to its result
\* ------------------------------------------------------------------------

InitNorm ==
    /\ PipeIdle
    /\ FnIdle
    /\ pc = "norm_start"
    /\ text \in NormInputs(MaxNormUnits)
    /\ cleaned = <<>>
    /\ again = <<>>
    /\ split = <<>>
    /\ MmrIdle

NormalizeOnce ==
    /\ pc = "norm_start"
    /\ cleaned' = normalize_whitespace(text)
    /\ pc' = "norm_once"
    /\ UNCHANGED <<text, again, split, mmrVars, pipeVars, fnVars>>

NormalizeTwice ==
    /\ pc = "norm_once"
    /\ again' = normalize_whitespace(cleaned)
    /\ pc' = "norm_twice"
    /\ UNCHANGED <<text, cleaned, split, mmrVars, pipeVars, fnVars>>

NextNorm == NormalizeOnce \/ NormalizeTwice

SpecNorm == InitNorm /\ [][NextNorm]_vars

\* ------------------------------------------------------------------------
\* SpecMmr: one call of mmr, one iteration of its while loop per step
\* ------------------------------------------------------------------------

\* the scores the callers of mmr are given
ScoreLevels == {0, 1, 3}

\* the similarities, in 1/SimScale: cosine similarities lie in [0, 1]
SimLevels == 0..SimScale

\* the values of lambda, in tenths: both ends of [0, 1], the middle and the
\* value summarize_extractive passes for a short summary
LambdaLevels == {0, 5, 6, 10}

\* the symmetric n x n matrices with a zero diagonal (textrank_scores has
\* zeroed the diagonal in place before mmr is called)
SimMatrices(n) ==
    LET Pairs == { p \in (0..(n - 1)) \X (0..(n - 1)) : p[1] < p[2] } IN
    { [p \in (0..(n - 1)) \X (0..(n - 1)) |->
          IF p[1] = p[2] THEN 0
          ELSE IF p[1] < p[2] THEN u[p] ELSE u[<<p[2], p[1]>>]]
      : u \in [Pairs -> SimLevels] }

InitMmr ==
    /\ PipeIdle
    /\ FnIdle
    /\ pc = "mmr_loop"
    /\ text = <<>>
    /\ cleaned = <<>>
    /\ again = <<>>
    /\ split = <<>>
    /\ \E n \in 1..MaxN :
          /\ scores_dict \in [0..(n - 1) -> ScoreLevels]
          /\ sim_mat \in SimMatrices(n)
          /\ k \in 1..(MaxN + 1)
    /\ lambda_param \in LambdaLevels
    /\ selected = <<>>
    /\ candidates = 0..(Shape0(sim_mat) - 1)

\* one iteration of  while len(selected) < k and candidates
MmrIterate ==
    /\ pc = "mmr_loop"
    /\ LoopCond(selected, k, candidates)
    /\ \E b \in { BestIdx(scores_dict, sim_mat, lambda_param, selected, candidates) } :
       IF b # None
       THEN /\ selected' = Append(selected, b)
            /\ candidates' = RemoveCandidate(candidates, b)
            /\ pc' = pc
       ELSE /\ pc' = "mmr_done"
            /\ UNCHANGED <<selected, candidates>>
    /\ UNCHANGED <<textVars, scores_dict, sim_mat, k, lambda_param, pipeVars, fnVars>>

\* the loop condition fails: return selected
MmrReturn ==
    /\ pc = "mmr_loop"
    /\ ~LoopCond(selected, k, candidates)
    /\ pc' = "mmr_done"
    /\ UNCHANGED <<textVars, mmrVars, pipeVars, fnVars>>

NextMmr == MmrIterate \/ MmrReturn

SpecMmr == InitMmr /\ [][NextMmr]_vars

\* C4: mmr returns exactly min(k, n) indices, never more than k or n.
C4_SelectionSize ==
    pc = "mmr_done" =>
        LET n == Shape0(sim_mat) IN
        Len(selected) = (IF k < n THEN k ELSE n)

C4_Witness ==
    /\ pc = "mmr_done"
    /\ Shape0(sim_mat) = 3 /\ k = 2 /\ Len(selected) = 2
    /\ lambda_param = 6

\* C5: every selected index lies in 0..n-1, no index is selected twice, and
\* after every iteration the selected list and the candidate set are
\* disjoint and together hold exactly the indices 0..n-1.
C5_SelectedAndCandidatesPartition ==
    pc \in {"mmr_loop", "mmr_done"} =>
        LET n == Shape0(sim_mat)
            sel == { selected[j] : j \in 1..Len(selected) }
        IN  /\ sel \subseteq 0..(n - 1)
            /\ Cardinality(sel) = Len(selected)
            /\ sel \cap candidates = {}
            /\ sel \cup candidates = 0..(n - 1)

C5_Witness ==
    /\ pc = "mmr_loop"
    /\ Len(selected) = 2 /\ candidates # {}
    /\ selected[1] > selected[2]

\* the normalized score of i is the largest of all
HasMaxNormalizedScore(sd, sim, i) ==
    LET sc == NormalizeScores(ScoreArray(sd, sim)) IN
    \A j \in DOMAIN sc.num : sc.num[j] <= sc.num[i]

\* C6: with k = 1 and lambda in (0, 1] the one index mmr returns has the
\* largest normalized score of all sentences, whatever the similarities.
C6_TopScoreAtK1 ==
    (pc = "mmr_done" /\ k = 1 /\ lambda_param > 0) =>
        /\ Len(selected) = 1
        /\ HasMaxNormalizedScore(scores_dict, sim_mat, selected[1])

C6_Witness ==
    /\ pc = "mmr_done" /\ k = 1 /\ lambda_param = 6
    /\ Shape0(sim_mat) = 3
    /\ selected = <<2>>
    /\ scores_dict[0] < scores_dict[2]
    /\ \E p \in DOMAIN sim_mat : sim_mat[p] > 0

\* the selection state before the last index was appended
PrevSelected == SubSeq(selected, 1, Len(selected) - 1)

\* the keys of all indices in the iteration that appended the last index
PrevKeys ==
    LET sc == NormalizeScores(ScoreArray(scores_dict, sim_mat))
        prev == PrevSelected
    IN  [i \in DOMAIN sc.num |-> MmrKey(sc, sim_mat, lambda_param, prev, i)]

\* C7: ties are broken towards the lowest index: in every iteration the
\* index that is selected has the largest MMR value of all remaining
\* candidates, and no candidate with the same value has a smaller index.
C7_LowestIndexWins ==
    (pc \in {"mmr_loop", "mmr_done"} /\ selected # <<>>) =>
        LET b == selected[Len(selected)]
            key == PrevKeys
        IN  \A i \in candidates :
                /\ ~KeyGreater(key[i], key[b])
                /\ key[i] = key[b] => b < i

\* a tie between two candidates that are both similar to a sentence selected
\* before, with a third candidate of a lower value
C7_Witness ==
    /\ pc \in {"mmr_loop", "mmr_done"}
    /\ Len(selected) >= 2
    /\ \E i \in candidates :
          /\ PrevKeys[i] = PrevKeys[selected[Len(selected)]]
          /\ SimToSelected(sim_mat, PrevSelected, i) > 0

\* C8: normalization is idempotent: normalizing an already normalized
\* string changes nothing.
C8_NormalizeIdempotent == pc = "norm_twice" => again = cleaned

\* ------------------------------------------------------------------------
\* SpecSplit: lines 1212-1213 of summarize_extractive, the text is
\* normalized and then segmented
\* ------------------------------------------------------------------------

\* "The plan needs care."
FullSentence ==
    <<"T","h","e"," ","p","l","a","n"," ","n","e","e","d","s"," ","c","a","r","e",".">>

\* "the plan needs care": one character short of the length filter and
\* without a closing mark
Fragment ==
    <<"t","h","e"," ","p","l","a","n"," ","n","e","e","d","s"," ","c","a","r","e">>

SplitUnits == { FullSentence, Fragment, <<" ">>, <<".">>, <<"1">>, <<"A">>,
                <<"D","r",".">>, <<"D","r">> \o DOT }

SplitInputs(max) == UnitStrings(SplitUnits, max)

InitSplit ==
    /\ PipeIdle
    /\ FnIdle
    /\ pc = "split_start"
    /\ text \in SplitInputs(MaxSplitUnits)
    /\ cleaned = <<>>
    /\ again = <<>>
    /\ split = <<>>
    /\ MmrIdle

SplitNormalize ==
    /\ pc = "split_start"
    /\ cleaned' = normalize_whitespace(text)
    /\ pc' = "split_cleaned"
    /\ UNCHANGED <<text, again, split, mmrVars, pipeVars, fnVars>>

SplitSentences ==
    /\ pc = "split_cleaned"
    /\ split' = sentence_split(cleaned)
    /\ pc' = "split_done"
    /\ UNCHANGED <<text, cleaned, again, mmrVars, pipeVars, fnVars>>

NextSplit == SplitNormalize \/ SplitSentences

SpecSplit == InitSplit /\ [][NextSplit]_vars

\* the number of sentence-ending punctuation marks in s
CountMarks(s) == Cardinality({ j \in 1..Len(s) : s[j] \in EndMarks })

\* C9: the segmenter returns at most as many sentences as the text has
\* sentence-ending punctuation marks (. ! ?); a text without any mark
\* yields no sentence.
C9_CountBound == pc = "split_done" => Len(split) <= CountMarks(cleaned)

RECURSIVE OrderedIn(_, _, _)
\* the strings of ss occur in s from position from on, one after the other
\* and without overlap (the leftmost occurrence of each is the best choice)
OrderedIn(ss, s, from) ==
    IF ss = <<>> THEN TRUE
    ELSE LET at == { i \in from..(Len(s) + 1) : MatchAt(s, Head(ss), i) } IN
         IF at = {} THEN FALSE
         ELSE LET first == CHOOSE i \in at : \A j \in at : i <= j
              IN  OrderedIn(Tail(ss), s, first + Len(Head(ss)))

\* C10: every returned sentence is a contiguous substring of the normalized
\* text, and the sentences come in the order they have in that text.
C10_SubstringsInOrder == pc = "split_done" => OrderedIn(split, cleaned, 1)

\* ------------------------------------------------------------------------
\* summarize_extractive and the route summarize (PDF/TXT branch)
\* ------------------------------------------------------------------------

\* the most sentences of an uploaded document
MaxSents == 4

\* if len(orig_text) < 50: abort(400, "Not enough text found.")
MinTextLen == 50

Lengths == {"short", "medium", "long"}
Tones == {"academic", "simple"}

Min2(a, b) == IF a < b THEN a ELSE b
Max2(a, b) == IF a > b THEN a ELSE b

\* ratio in percent, min_k and max_k of the length choice
Ratio(length_choice) ==
    IF length_choice = "short" THEN 8 ELSE IF length_choice = "long" THEN 35 ELSE 18
\* no lower clamp
MinKZero(length_choice) == 0

MinK(length_choice) ==
    IF length_choice = "short" THEN 2 ELSE IF length_choice = "long" THEN 12 ELSE 6
\* the upper clamps of short and long exchanged
MaxKExchanged(length_choice) ==
    IF length_choice = "short" THEN 20 ELSE IF length_choice = "long" THEN 5 ELSE 10

MaxK(length_choice) ==
    IF length_choice = "short" THEN 5 ELSE IF length_choice = "long" THEN 20 ELSE 10

\* target_k of a document of n sentences.  int(n * ratio) is the floor of
\* n * percent / 100 for every n the clamp to max_k does not cover.
TargetK(n, length_choice) ==
    LET target_k ==
            Min2(Min2(Max2(MinK(length_choice), (n * Ratio(length_choice)) \div 100),
                      MaxK(length_choice)), n)
    IN  IF n < 10 THEN Min2(3, n) ELSE target_k

\* a lambda_param of its own for long
LambdaOfLongApart(length_choice) ==
    IF length_choice = "short" THEN 6 ELSE IF length_choice = "long" THEN 0 ELSE 7

\* lambda_param = 0.6 if length_choice == "short" else 0.7, in tenths
LambdaOf(length_choice) == IF length_choice = "short" THEN 6 ELSE 7

\* the multiplier without the branch of the conclusion
PositionMultNoConclusion(i, doc_len) ==
    IF i * 100 < 5 * doc_len THEN 15
    ELSE IF i * 100 < 15 * doc_len THEN 12
    ELSE 10

\* mult of textrank_scores in tenths; position = i / doc_len
PositionMult(i, doc_len) ==
    IF i * 100 < 5 * doc_len THEN 15
    ELSE IF i * 100 > 95 * doc_len THEN 13
    ELSE IF i * 100 < 15 * doc_len THEN 12
    ELSE 10

\* pr of textrank_scores for doc_len sentences, in units of the smallest
\* rank: every sentence ranks the same (h = -1, which is also what the
\* except branch gives, 1.0 / doc_len each), or sentence h ranks twice as
\* high as the others
PageRanks(doc_len) ==
    { [i \in 0..(doc_len - 1) |-> IF i = h THEN 2 ELSE 1] : h \in (-1)..(doc_len - 1) }

\* what nx.pagerank can do for doc_len sentences
PageRankOutcomes(doc_len) ==
    { [raised |-> TRUE, pr |-> <<>>] }
        \cup { [raised |-> FALSE, pr |-> pr] : pr \in PageRanks(doc_len) }

\* the except branch with every rank as 0
FallbackZero(sim, doc_len) == [i \in 0..(Shape0(sim) - 1) |-> 0]

\* pr = {i: 1.0/doc_len for i in range(sim_mat.shape[0])}, in units of
\* 1 / doc_len
FallbackRanks(sim, doc_len) == [i \in 0..(Shape0(sim) - 1) |-> 1]

\* pr after the try statement: outcome.pr is what nx.pagerank returned,
\* outcome.raised says that it raised instead
RanksOrFallback(outcome, sim, doc_len) ==
    IF outcome.raised THEN FallbackRanks(sim, doc_len) ELSE outcome.pr

\* a loop over the sentences that starts at the second one
TextrankScoresSkipFirst(pr, doc_len) ==
    [i \in 1..(doc_len - 1) |-> pr[i] * PositionMult(i, doc_len)]

\* textrank_scores(sim_mat, doc_len) for the page ranks pr
textrank_scores(pr, doc_len) ==
    [i \in 0..(doc_len - 1) |-> pr[i] * PositionMult(i, doc_len)]

\* the lists mmr(tr_scores, sim_mat, target_k, lambda_param) can return for
\* n sentences, over the similarity matrices and page ranks of the model
MmrOutcomes(n, kk, lam) ==
    { mmr(textrank_scores(RanksOrFallback(outcome, sim, n), n), sim, kk, lam) :
        outcome \in PageRankOutcomes(n), sim \in SimMatrices(n) }

\* MmrOutcomes for every document that reaches mmr, computed once: pairs
\* of <<n, target_k, lambda_param>> and the lists mmr can return
MmrTable ==
    { <<x, MmrOutcomes(x[1], x[2], x[3])>> :
        x \in { <<n, TargetK(n, l), LambdaOf(l)>> : n \in 4..MaxSents, l \in Lengths } }

\* selected_idxs = mmr(tr_scores, sim_mat, target_k, lambda_param) of a
\* document of n sentences: the lists the call can return
MmrOf(n, length_choice) ==
    LET x == <<n, TargetK(n, length_choice), LambdaOf(length_choice)>> IN
    IF \E p \in MmrTable : p[1] = x
    THEN (CHOOSE p \in MmrTable : p[1] = x)[2]
    ELSE MmrOutcomes(x[1], x[2], x[3])

\* the list is left as mmr returned it
SortListForgotten(l) == l

RECURSIVE SortList(_)
\* list.sort() of a list of integers
SortList(l) ==
    IF l = <<>> THEN <<>>
    ELSE LET m == SetMin({ l[j] : j \in 1..Len(l) })
             p == SetMin({ j \in 1..Len(l) : l[j] = m })
         IN  <<m>> \o SortList(SubSeq(l, 1, p - 1) \o SubSeq(l, p + 1, Len(l)))

\* the lists of sentences summarize_extractive returns for the documents of
\* the model, and build_structured_summary of each, computed once
SummaryLists == UNION { [1..m -> SentencePool] : m \in 0..3 }
BuildTable ==
    { <<x, build_structured_summary(x[1], x[2])>> : x \in SummaryLists \X Tones }

\* build_structured_summary(sents, tone, language)
BuildOf(ss, tn) ==
    IF \E p \in BuildTable : p[1] = <<ss, tn>>
    THEN (CHOOSE p \in BuildTable : p[1] = <<ss, tn>>)[2]
    ELSE build_structured_summary(ss, tn)

\* "This is what it was.": every word is an English stop word
StopSentence ==
    <<"T","h","i","s"," ","i","s"," ","w","h","a","t"," ","i","t"," ","w","a","s",".">>

\* the uploaded documents: sentences of the pool, or the stop word sentence
\* a number of times
Docs ==
    UNION { [1..m -> SentencePool] : m \in 0..MaxSents }
        \cup { [j \in 1..m |-> StopSentence] : m \in 1..MaxSents }

\* texts of MinTextLen characters or more without a sentence in them:
\* blanks only, and numbers only
GarbageTexts ==
    { [j \in 1..MinTextLen |-> " "],
      Concat([j \in 1..7 |-> <<"1",".","2"," ","3",".","4"," ">>]) }

\* the texts read from the uploaded file: the sentences of a document with
\* one blank between them, or garbage
OrigTexts == { Join(doc, <<" ">>) : doc \in Docs } \cup GarbageTexts

\* the words of sklearn's English stop word list that occur in the texts
StopWords ==
    { <<"t","h","e">>, <<"o","u","r">>, <<"i","s">>, <<"b","y">>,
      <<"h","o","w","e","v","e","r">>, <<"t","h","i","s">>,
      <<"w","h","a","t">>, <<"i","t">>, <<"w","a","s">> }

\* the tokens of TfidfVectorizer's default token pattern \b\w\w+\b in the
\* lower-cased sentence: the maximal runs of two or more word characters
Tokens(s) ==
    LET sl == LowerStr(s) IN
    { Slice(sl, i, RunEnd(sl, WordChar, i)) :
        i \in { j \in 1..Len(sl) :
                  /\ sl[j] \in WordChar
                  /\ (j = 1 \/ sl[j - 1] \notin WordChar)
                  /\ RunEnd(sl, WordChar, j) > j } }

\* build_tfidf(sentences) raises ValueError (empty vocabulary): no
\* sentence has a token that is not a stop word
TfidfRaises(ss) ==
    \A j \in 1..Len(ss) : Tokens(ss[j]) \subseteq StopWords

Init ==
    /\ pc = "received"
    /\ text = <<>>
    /\ cleaned = <<>>
    /\ again = <<>>
    /\ split = <<>>
    /\ MmrIdle
    /\ orig_text \in OrigTexts
    /\ length \in Lengths
    /\ tone \in Tones
    /\ sentences = <<>>
    /\ selected_idxs = <<>>
    /\ sents = <<>>
    /\ structured_data = EmptyData
    /\ RunIdle
    /\ TransIdle
    /\ FnIdle

\* sentence_split(normalize_whitespace(raw_text)) of every text that can be
\* uploaded, computed once: pairs of a text and its sentences
SplitTable ==
    { <<t, sentence_split(normalize_whitespace(t))>> : t \in OrigTexts }

\* sentences = sentence_split(normalize_whitespace(raw_text))
SplitOf(t) ==
    IF \E p \in SplitTable : p[1] = t
    THEN (CHOOSE p \in SplitTable : p[1] = t)[2]
    ELSE sentence_split(normalize_whitespace(t))

\* TfidfVectorizer, cosine_similarity and nx.pagerank compute without random
\* numbers: asked again about the same sentences they answer the same, and
\* mmr, a function of their answers, returns the list it returned before
LibraryOutcomes(answered, outcomes) ==
    IF answered = NoAnswer THEN outcomes ELSE {answered}

\* a list of sections that goes on from what the call before left
StartSectionsKept(left) == left

\* sections = []: the list of sections starts empty in every call, whatever
\* the name held before
StartSections(left) == <<>>

\* lines 1611-1612 of summarize
AbortShortText ==
    /\ pc = "received"
    /\ Len(orig_text) < MinTextLen
    /\ pc' = "aborted"
    /\ UNCHANGED <<textVars, mmrVars, pipeVars, fnVars>>

\* sents, _ = summarize_extractive(orig_text, length)
SummarizeExtractive ==
    /\ pc = "received"
    /\ Len(orig_text) >= MinTextLen
    /\ \E ss \in { SplitOf(orig_text) } :
          /\ sentences' = ss
          /\ IF Len(ss) <= 3
             THEN /\ selected_idxs' = <<>>
                  /\ sents' = ss
                  /\ pc' = "extracted"
             ELSE IF TfidfRaises(ss)
             THEN \* the ValueError of build_tfidf leaves summarize_extractive
                  /\ pc' = "raised"
                  /\ UNCHANGED <<selected_idxs, sents>>
             ELSE \E sel \in LibraryOutcomes(library, MmrOf(Len(ss), length)) :
                     /\ selected_idxs' = SortList(sel)
                     /\ sents' = [j \in 1..Len(sel) |-> ss[selected_idxs'[j] + 1]]
                     /\ library' = sel
                     /\ pc' = "extracted"
          /\ (Len(ss) <= 3 \/ TfidfRaises(ss)) => UNCHANGED library
    /\ UNCHANGED <<textVars, mmrVars, orig_text, length, tone, structured_data,
                   run, first_run, language, gemini_api_key, response, fnVars>>

\* structured_data = build_structured_summary(sents, tone, language)
BuildStructuredSummary ==
    /\ pc = "extracted"
    /\ \E d \in { BuildOf(sents, tone) } :
          structured_data' =
              IF tone = "simple" THEN d
              ELSE [d EXCEPT !.sections = StartSections(structured_data.sections) \o @]
    /\ pc' = "built"
    /\ UNCHANGED <<textVars, mmrVars, orig_text, length, tone, sentences,
                   selected_idxs, sents, run, first_run, library,
                   language, gemini_api_key, response, fnVars>>

Next == AbortShortText \/ SummarizeExtractive \/ BuildStructuredSummary

Spec == Init /\ [][Next]_vars

\* C1: the sentences summarize_extractive returns are a subsequence of the
\* sentences sentence_split gave: with 3 sentences or fewer they are those
\* sentences, otherwise the selected indices are indices of the document,
\* strictly increasing (so pairwise distinct), and the returned sentences
\* are the sentences at these indices, in this order.
C1_SourceOrder ==
    pc \in {"extracted", "built"} =>
        IF Len(sentences) <= 3 THEN sents = sentences
        ELSE /\ \A j \in 1..Len(selected_idxs) :
                    selected_idxs[j] \in 0..(Len(sentences) - 1)
             /\ \A i, j \in 1..Len(selected_idxs) :
                    i < j => selected_idxs[i] < selected_idxs[j]
             /\ Len(sents) = Len(selected_idxs)
             /\ \A j \in 1..Len(sents) : sents[j] = sentences[selected_idxs[j] + 1]

\* summarize_extractive has returned a selection that leaves out a sentence
\* between two selected ones
C1_Witness ==
    /\ pc = "extracted"
    /\ Len(sentences) > 3
    /\ Len(selected_idxs) = 3
    /\ \E j \in 1..2 : selected_idxs[j + 1] > selected_idxs[j] + 1

\* the bullets of all sections, read top to bottom
Bullets(data) ==
    Concat([t \in 1..Len(data.sections) |-> data.sections[t].bullets])

\* the index of the first sentence of the document a bullet was made of
SourceIndex(b) ==
    SetMin({ i \in 1..Len(sentences) : CleanedOf(sentences[i]) = b })

\* C2: in academic mode the bullets of the structured summary, read
\* section by section from top to bottom, never show a sentence with a
\* larger source index before a sentence with a smaller one.
C2_ReadsInSourceOrder ==
    (pc = "built" /\ tone = "academic") =>
        LET bl == Bullets(structured_data) IN
        \A p, q \in 1..Len(bl) : p < q => SourceIndex(bl[p]) < SourceIndex(bl[q])

\* C3: when sentence_split gives 3 sentences or fewer, mmr is not run and
\* the summary is these sentences, verbatim and in order, for every length
\* and tone: the paragraph of the simple tone is the sentences joined by
\* blanks, the bullets of the academic tone are the sentences.
C3_PassthroughVerbatim ==
    (pc = "built" /\ Len(sentences) <= 3) =>
        /\ selected_idxs = <<>>
        /\ IF tone = "simple"
           THEN structured_data.abstract = Join(sentences, <<" ">>)
           ELSE Bullets(structured_data) = sentences

\* ------------------------------------------------------------------------
\* score_sentence_categories on its own
\* ------------------------------------------------------------------------

\* the longest sentence handed to score_sentence_categories, in units
MaxScoreUnits == 3

\* the pieces the sentences are made of: years inside and outside 2020..2059,
\* a year that is a keyword, the percent sign, keywords of three categories
\* (one of them capitalised), and characters that join a year to a word
ScoreUnits ==
    { <<"I","n"," ","2","0","4","1">>,
      <<" ","t","h","e"," ","w","o","r","k">>,
      <<"2","0","3","0">>,
      <<"5","%">>,
      <<" ","f","u","n","d">>,
      <<" ","G","o","a","l">>,
      <<" ","d","a","t","a">>,
      <<"2","0","6","1">>,
      <<"1">> }

ScoreInputs(max) == UnitStrings(ScoreUnits, max)

InitScore ==
    /\ pc = "score_call"
    /\ text \in ScoreInputs(MaxScoreUnits)
    /\ cleaned = <<>>
    /\ again = <<>>
    /\ split = <<>>
    /\ MmrIdle
    /\ PipeIdle
    /\ FnIdle

\* best_cat = score_sentence_categories(text)
ScoreSentence ==
    /\ pc = "score_call"
    /\ best_cat' = score_sentence_categories(text)
    /\ pc' = "score_done"
    /\ UNCHANGED <<textVars, mmrVars, pipeVars, n_sentences, pagerank>>

NextScore == ScoreSentence

SpecScore == InitScore /\ [][NextScore]_vars

\* the keywords of a category of POLICY_KEYWORDS
KeywordsOf(cat) ==
    LET c == CHOOSE c \in 1..Len(POLICY_KEYWORDS) : POLICY_KEYWORDS[c][1] = cat
    IN  { POLICY_KEYWORDS[c][2][j] : j \in 1..Len(POLICY_KEYWORDS[c][2]) }

\* C11: a sentence that score_sentence_categories assigns to a category
\* other than "other" contains, lower-cased, at least one keyword of that
\* category.
C11_CategoryHasKeyword ==
    (pc = "score_done" /\ best_cat # Other) =>
        \E kw \in KeywordsOf(best_cat) : IsSubstring(kw, LowerStr(text))

\* C12: a text in which sentence_split finds no sentence never gets a
\* summary object built for it: the request fails instead.
C12_NoSummaryWithoutSentences ==
    pc = "built" => sentences # <<>>

\* C13: the failure of build_tfidf on a document of more than 3 sentences
\* without any feature does not leave summarize_extractive: the function
\* returns sentences or reports an error of its own.
C13_VectorizerFailureContained ==
    pc # "raised"

\* ------------------------------------------------------------------------
\* SpecRank: textrank_scores with a PageRank that may raise, then mmr
\* ------------------------------------------------------------------------

InitRank ==
    /\ pc = "rank_call"
    /\ text = <<>>
    /\ cleaned = <<>>
    /\ again = <<>>
    /\ split = <<>>
    /\ PipeIdle
    /\ best_cat = ""
    /\ \E m \in 1..MaxN :
          /\ n_sentences = m
          /\ sim_mat \in SimMatrices(m)
          /\ pagerank \in PageRankOutcomes(m)
          /\ k \in 1..(MaxN + 1)
    /\ lambda_param \in {6, 7}
    /\ scores_dict = <<>>
    /\ selected = <<>>
    /\ candidates = {}

\* tr_scores = textrank_scores(sim_mat, n), and the first lines of mmr
TextrankScores ==
    /\ pc = "rank_call"
    /\ scores_dict' = textrank_scores(RanksOrFallback(pagerank, sim_mat, n_sentences),
                                      n_sentences)
    /\ candidates' = 0..(Shape0(sim_mat) - 1)
    /\ pc' = "mmr_loop"
    /\ UNCHANGED <<textVars, sim_mat, k, lambda_param, selected, pipeVars, fnVars>>

NextRank == TextrankScores \/ MmrIterate \/ MmrReturn

SpecRank == InitRank /\ [][NextRank]_vars

\* C14: when PageRank raises, textrank_scores still gives every index a
\* score, the uniform base score 1 / doc_len times the multiplier of the
\* position, and the selection that follows returns min(k, n) indices.
C14_RankingFailureNotFatal ==
    (pagerank.raised /\ pc # "rank_call") =>
        /\ DOMAIN scores_dict = 0..(n_sentences - 1)
        /\ \A i \in DOMAIN scores_dict :
               scores_dict[i] = PositionMult(i, n_sentences)
        /\ pc = "mmr_done" => Len(selected) = Min2(k, n_sentences)

\* PageRank has raised and the selection has returned two indices or more
C14_Witness ==
    /\ pagerank.raised
    /\ pc = "mmr_done"
    /\ Len(selected) >= 2

\* ------------------------------------------------------------------------
\* SpecTarget: the number of sentences summarize_extractive returns
\* ------------------------------------------------------------------------

\* the most sentences of a document in SpecTarget
MaxDocLen == 60

\* len(final_sents) for a document of m sentences: all of them up to 3,
\* otherwise the target_k indices mmr returns (target_k <= m)
SelectedCount(m, length_choice) ==
    IF m <= 3 THEN m ELSE TargetK(m, length_choice)

InitTarget ==
    /\ pc = "target_call"
    /\ text = <<>>
    /\ cleaned = <<>>
    /\ again = <<>>
    /\ split = <<>>
    /\ MmrIdle
    /\ orig_text = <<>>
    /\ length \in Lengths
    /\ tone = ""
    /\ sentences = <<>>
    /\ selected_idxs = <<>>
    /\ sents = <<>>
    /\ structured_data = EmptyData
    /\ RunIdle
    /\ TransIdle
    /\ best_cat = ""
    /\ n_sentences \in 0..MaxDocLen
    /\ pagerank = [raised |-> FALSE, pr |-> <<>>]

\* lines 1214-1236 and the length of the list that is returned; k holds it
ComputeTarget ==
    /\ pc = "target_call"
    /\ k' = SelectedCount(n_sentences, length)
    /\ pc' = "target_done"
    /\ UNCHANGED <<textVars, scores_dict, sim_mat, lambda_param, selected,
                   candidates, pipeVars, fnVars>>

NextTarget == ComputeTarget

SpecTarget == InitTarget /\ [][NextTarget]_vars

\* C15: for a document of 15 sentences or more the number of sentences
\* selected is in the range the upload form shows for the length: 3 to 5
\* for short, 7 to 10 for medium, 12 to 15 for long.
C15_AdvertisedRange ==
    (pc = "target_done" /\ n_sentences >= 15) =>
        /\ length = "short" => k \in 3..5
        /\ length = "medium" => k \in 7..10
        /\ length = "long" => k \in 12..15

\* C16: for a document of 10 sentences or more and length short, the
\* number of sentences selected is between min_k = 2 and max_k = 5 and
\* smaller than the number of sentences of the document.
C16_ShortClamp ==
    (pc = "target_done" /\ n_sentences >= 10 /\ length = "short") =>
        (k >= 2 /\ k <= 5 /\ k < n_sentences)

\* a document of 50 sentences, length short: 4 sentences are selected
C16_Witness ==
    /\ pc = "target_done"
    /\ n_sentences = 50
    /\ length = "short"
    /\ k = 4

\* ------------------------------------------------------------------------
\* SpecMmrLive: the loop of mmr, which goes on while it can take a step
\* ------------------------------------------------------------------------

\* the largest number of sentences handed to mmr in this specification
MaxLiveN == 3

\* the calls of mmr: scores all equal or one sentence ahead, every similarity
\* matrix (all sentences identical included), k below, at and above the
\* number of sentences, and the values of lambda_param that
\* summarize_extractive passes
InitMmrLive ==
    /\ PipeIdle
    /\ FnIdle
    /\ pc = "mmr_loop"
    /\ text = <<>>
    /\ cleaned = <<>>
    /\ again = <<>>
    /\ split = <<>>
    /\ \E n \in 1..MaxLiveN :
          /\ scores_dict \in { [i \in 0..(n - 1) |-> IF i = h THEN 1 ELSE 0] :
                                 h \in -1..(n - 1) }
          /\ sim_mat \in SimMatrices(n)
          /\ k \in 1..(MaxLiveN + 1)
    /\ lambda_param \in {LambdaOf(l) : l \in Lengths}
    /\ selected = <<>>
    /\ candidates = 0..(Shape0(sim_mat) - 1)

\* the interpreter runs the loop on: a step that can be taken is taken
SpecMmrLive == InitMmrLive /\ [][NextMmr]_vars /\ WF_vars(NextMmr)

\* C17: the loop of mmr ends: every iteration that stays in the loop adds
\* one index to selected, selected never holds more than min(k, n) indices,
\* and the call returns, with min(k, n) indices (k of them in every call
\* with k <= n).
C17_MmrTerminates ==
    /\ [][(pc = "mmr_loop" /\ pc' = "mmr_loop")
             => Len(selected') = Len(selected) + 1]_vars
    /\ [](Len(selected) <= Min2(k, Shape0(sim_mat)))
    /\ <>(pc = "mmr_done" /\ Len(selected) = Min2(k, Shape0(sim_mat)))

\* mmr has returned k > 1 indices for sentences that are all identical:
\* the same score for each and similarity 1 between any two
C17_Witness ==
    /\ pc = "mmr_done"
    /\ Shape0(sim_mat) = 3
    /\ \A i, j \in 0..2 : i # j => sim_mat[<<i, j>>] = SimScale
    /\ \A i \in 0..2 : scores_dict[i] = scores_dict[0]
    /\ k > 1
    /\ Len(selected) = k

\* ------------------------------------------------------------------------
\* The objective of one step of mmr, written out from its formula
\* ------------------------------------------------------------------------

\* the largest similarity of candidate i to a sentence selected so far, and
\* 0 while nothing is selected
Penalty(i) ==
    IF selected = <<>> THEN 0
    ELSE CHOOSE m \in { sim_mat[<<i, selected[j]>>] : j \in 1..Len(selected) } :
           \A j \in 1..Len(selected) : sim_mat[<<i, selected[j]>>] <= m

\* lambda * normalized_score(i) - (1 - lambda) * Penalty(i), on the scale
\* of CurrMmr, with the loss of the 1e-12 as second component
Objective(i) ==
    LET sc == NormalizeScores(ScoreArray(scores_dict, sim_mat)) IN
    << lambda_param * sc.num[i] * SimScale
         - (LambdaScale - lambda_param) * Penalty(i) * sc.den,
       IF sc.eps THEN 0 - lambda_param * sc.num[i] ELSE 0 >>

\* C19: at every step of mmr the index appended to selected is one of the
\* remaining candidates and no remaining candidate has a larger value of
\* lambda * normalized_score - (1 - lambda) * max similarity to the
\* selected sentences, the second term being 0 while selected is empty.
C19_ChosenMaximisesObjective ==
    [][(pc = "mmr_loop" /\ Len(selected') = Len(selected) + 1) =>
          LET b == selected'[Len(selected')] IN
          /\ b \in candidates
          /\ \A i \in candidates : ~KeyGreater(Objective(i), Objective(b))]_vars

\* a step on a non-empty selected list whose winner has a lower score than
\* a candidate it left behind: the penalty made the difference
C19_Witness ==
    /\ pc \in {"mmr_loop", "mmr_done"}
    /\ Len(selected) >= 2
    /\ \E i \in candidates :
          /\ scores_dict[i] > scores_dict[selected[Len(selected)]]
          /\ sim_mat[<<i, selected[1]>>] > 0

\* C20: the scores mmr selects on are min-max normalized: each lies in
\* [0, 1]; the denominator scores.max() - scores.min() + 1e-12 is positive,
\* also when all scores are equal, and then all normalized scores are equal.
C20_NormalizedInUnitInterval ==
    pc \in {"mmr_loop", "mmr_done"} =>
        LET a == ScoreArray(scores_dict, sim_mat)
            sc == NormalizeScores(a)
        IN  /\ ArrayMax(a) - ArrayMin(a) >= 0
            /\ sc.den > 0
            /\ \A i \in DOMAIN a : 0 <= sc.num[i] /\ sc.num[i] <= sc.den
            /\ (\A i, j \in DOMAIN a : a[i] = a[j])
                  => \A i, j \in DOMAIN a : sc.num[i] = sc.num[j]

\* mmr has run on three sentences with the same positive score: the
\* normalizing branch is taken with a range of 0
C20_Witness ==
    /\ pc = "mmr_done"
    /\ Shape0(sim_mat) = 3
    /\ \A i \in 0..2 : scores_dict[i] = 3
    /\ selected # <<>>

\* ------------------------------------------------------------------------
\* SpecTwice: the pipeline run on a text, and then once more on the same
\* text with the same length and tone
\* ------------------------------------------------------------------------

\* a run has ended: with a summary, with abort(400) or with the exception
\* of build_tfidf
RunEnded == pc \in {"built", "aborted", "raised"}

\* the same request is served again.  What the first run left in the
\* variables is still there when the second run starts.
NextRun ==
    /\ RunEnded
    /\ run = 0
    /\ run' = 1
    /\ first_run' = [pc |-> pc, data |-> structured_data]
    /\ pc' = "received"
    /\ UNCHANGED <<textVars, mmrVars, orig_text, length, tone, sentences,
                   selected_idxs, sents, structured_data, library,
                   language, gemini_api_key, response, fnVars>>

NextTwice == Next \/ NextRun

SpecTwice == Init /\ [][NextTwice]_vars

C21_OneNonNegativeScorePerIndex ==
    pc \in {"mmr_loop", "mmr_done"} =>
        /\ DOMAIN scores_dict = 0..(n_sentences - 1)
        /\ \A i \in DOMAIN scores_dict : scores_dict[i] >= 0

\* nx.pagerank returned, three sentences were scored and the scores are
\* not all the same
C21_Witness ==
    /\ pc = "mmr_loop"
    /\ ~pagerank.raised
    /\ n_sentences = 3
    /\ DOMAIN scores_dict = 0..2
    /\ scores_dict[1] # scores_dict[2]

\* ------------------------------------------------------------------------
\* SpecBoost: textrank_scores on documents of up to MaxDocLen sentences
\* ------------------------------------------------------------------------

\* sim_mat of m sentences that share no term
ZeroMatrix(m) == [p \in (0..(m - 1)) \X (0..(m - 1)) |-> 0]

InitBoost ==
    /\ pc = "boost_call"
    /\ text = <<>>
    /\ cleaned = <<>>
    /\ again = <<>>
    /\ split = <<>>
    /\ PipeIdle
    /\ best_cat = ""
    /\ \E m \in 1..MaxDocLen :
          /\ n_sentences = m
          /\ sim_mat = ZeroMatrix(m)
          /\ pagerank \in PageRankOutcomes(m)
    /\ k = 0
    /\ lambda_param = 0
    /\ scores_dict = <<>>
    /\ selected = <<>>
    /\ candidates = {}

\* tr_scores = textrank_scores(sim_mat, n)
BoostScores ==
    /\ pc = "boost_call"
    /\ scores_dict' = textrank_scores(RanksOrFallback(pagerank, sim_mat, n_sentences),
                                      n_sentences)
    /\ pc' = "boost_done"
    /\ UNCHANGED <<textVars, sim_mat, k, lambda_param, selected, candidates,
                   pipeVars, fnVars>>

NextBoost == BoostScores

SpecBoost == InitBoost /\ [][NextBoost]_vars

\* the multiplier as a table of the position i / doc_len, in tenths
BoostTable(i, doc_len) ==
    IF 100 * i < 5 * doc_len THEN 15
    ELSE IF 100 * i > 95 * doc_len THEN 13
    ELSE IF 5 * doc_len <= 100 * i /\ 100 * i < 15 * doc_len THEN 12
    ELSE 10

\* C22: the score of sentence i of n is its page rank times 1.5 when
\* i / n < 0.05, 1.3 when i / n > 0.95, 1.2 when 0.05 <= i / n < 0.15 and
\* 1.0 otherwise; the first sentence gets 1.5.
C22_PositionBoost ==
    pc = "boost_done" =>
        LET pr == RanksOrFallback(pagerank, sim_mat, n_sentences) IN
        /\ \A i \in 0..(n_sentences - 1) :
               /\ scores_dict[i] = pr[i] * BoostTable(i, n_sentences)
               /\ BoostTable(i, n_sentences) \in {10, 12, 13, 15}
        /\ scores_dict[0] = pr[0] * 15

\* 60 sentences with equal ranks: sentence 2 is in the introduction,
\* sentence 3 (position 0.05) is early, sentence 9 (position 0.15) is
\* not, sentence 57 (position 0.95) is not in the conclusion, sentence
\* 58 is
C22_Witness ==
    /\ pc = "boost_done"
    /\ n_sentences = 60
    /\ pagerank.raised
    /\ scores_dict[2] = 15
    /\ scores_dict[3] = 12
    /\ scores_dict[9] = 10
    /\ scores_dict[57] = 10
    /\ scores_dict[58] = 13

\* ------------------------------------------------------------------------
\* score_sentence_categories: the category with the highest score
\* ------------------------------------------------------------------------

\* the number of the category named cat in POLICY_KEYWORDS
CategoryNumber(cat) ==
    CHOOSE c \in 1..Len(POLICY_KEYWORDS) : POLICY_KEYWORDS[c][1] = cat

\* C23: score_sentence_categories returns one category: "other" exactly
\* when every category scores 0, and otherwise a category of
\* POLICY_KEYWORDS that no category outscores and that every category
\* before it in POLICY_KEYWORDS scores strictly below.
C23_HighestScoreFirstInOrder ==
    pc = "score_done" =>
        LET Cats == 1..Len(POLICY_KEYWORDS) IN
        \E sc \in { [c \in Cats |-> CategoryScore(LowerStr(text), c)] } :
            /\ best_cat = Other <=> \A c \in Cats : sc[c] = 0
            /\ best_cat # Other =>
                  /\ \E c \in Cats : POLICY_KEYWORDS[c][1] = best_cat
                  /\ \A d \in Cats :
                         /\ sc[d] <= sc[CategoryNumber(best_cat)]
                         /\ d < CategoryNumber(best_cat) =>
                               sc[d] < sc[CategoryNumber(best_cat)]

\* two categories after the first one score the same and nothing scores
\* more: the sentence goes to the one that comes first
C23_Witness ==
    /\ pc = "score_done"
    /\ best_cat = "financing & costs"
    /\ CategoryScore(LowerStr(text), CategoryNumber("digital health"))
          = CategoryScore(LowerStr(text), CategoryNumber("financing & costs"))

\* ------------------------------------------------------------------------
\* The sections of the academic summary
\* ------------------------------------------------------------------------

\* the place of a title in section_titles
TitleIndex(title) ==
    CHOOSE t \in 1..Len(section_titles) : section_titles[t][2] = title

\* the places in sents of the sentences of category cat whose bullet is b
PlacesOf(cat, b) ==
    { j \in 1..Len(sents) : CategoryOf(sents[j]) = cat /\ CleanedOf(sents[j]) = b }

OccursNotLeading(j, c) ==
    \E i \in 1..Len(sents[j]) :
        /\ ConnectorMatchEnd(sents[j], connectors[c], i) > 0
        /\ (j = 1 \/ i > 1)

\* C25: in the simple tone a connective is stripped only where it leads a
\* sentence after the first: a connective that occurs in the first selected
\* sentence, or inside a later one, is still in the paragraph.
C25_ConnectivesKeptInsideSentences ==
    (pc = "built" /\ tone = "simple") =>
        \A j \in 1..Len(sents) : \A c \in 1..Len(connectors) :
            OccursNotLeading(j, c) =>
                IsSubstring(connectors[c], LowerStr(structured_data.abstract))

\* ------------------------------------------------------------------------
\* The places where sentence_split is said to break
\* ------------------------------------------------------------------------

\* the period at position i of p is a period of an abbreviation that
\* sentence_split masks
AbbreviationDot(p, i) ==
    \E a \in 1..Len(abbreviations) :
        \E d \in 1..Len(abbreviations[a][1]) :
            /\ abbreviations[a][1][d] = "."
            /\ MatchAt(p, abbreviations[a][1], i - d + 1)

\* an uppercase letter, a digit or an opening quote
BreakAhead == Upper \cup Digit \cup {"\"", "'"}

\* position i of p holds a mark after which a sentence is said to end: a
\* '.', '!' or '?' outside an abbreviation, then whitespace, then a
\* character of BreakAhead
BreakAfter(p, i) ==
    /\ p[i] \in EndMarks
    /\ ~AbbreviationDot(p, i)
    /\ i + 1 <= Len(p)
    /\ p[i + 1] \in Space
    /\ RunEnd(p, Space, i + 1) + 1 <= Len(p)
    /\ p[RunEnd(p, Space, i + 1) + 1] \in BreakAhead

\* C26: sentence_split breaks after every '.', '!' or '?' that is followed
\* by whitespace and an uppercase letter, a digit or an opening quote,
\* unless the period belongs to a masked abbreviation: no returned sentence
\* runs over such a place.
C26_BreakBeforeUpperDigitQuote ==
    pc = "split_done" =>
        \A j \in 1..Len(split) : \A i \in 1..Len(split[j]) :
            ~BreakAfter(split[j], i)

\* ------------------------------------------------------------------------
\* SpecTranslate: the translation step of summarize on a built summary
\* ------------------------------------------------------------------------

\* what the service can do with a request: generate_content raises; the
\* answer is no JSON; the answer is JSON but no object; the answer is an
\* object without the two keys; the answer is the translation
ServiceOutcomes == {"raised", "no json", "no object", "empty object", "translated"}

\* in the simple tone the answer is not parsed: it is the translation
\* whatever it is
OutcomesFor(tn) ==
    IF tn = "simple" THEN {"raised", "translated"} ELSE ServiceOutcomes

\* the text the service gives for s
Translated(s) == <<"h","i",":">> \o s

\* the sections the service gives for secs
TranslatedSections(secs) ==
    [a \in 1..Len(secs) |->
        [title |-> secs[a].title,
         bullets |-> [x \in 1..Len(secs[a].bullets) |-> Translated(secs[a].bullets[x])]]]

\* an except branch that returns nothing of the summary
OnTranslationErrorEmpty(tx, sections) == << <<>>, <<>> >>

\* except Exception as e: ... return text, sections
OnTranslationError(tx, sections) == <<tx, sections>>

\* translate_summary_with_gemini(text, sections, target_lang, tone) when
\* the key is set or not and the service does outcome
translate_summary_with_gemini(tx, sections, target_lang, tn, key, outcome) ==
    IF ~key \/ target_lang = "en" THEN <<tx, sections>>
    ELSE IF outcome = "raised" THEN OnTranslationError(tx, sections)
    ELSE IF tn = "simple" THEN << Translated(tx), <<>> >>
    ELSE IF outcome \in {"no json", "no object"}
         THEN OnTranslationError(tx, sections)
    ELSE IF outcome = "empty object" THEN <<tx, sections>>
    ELSE << Translated(tx), TranslatedSections(sections) >>

\* the language settings of the form that matter: English and another one
Languages == {"en", "hi"}

\* the summary has been built for a request with a language setting
InitTranslate ==
    /\ pc = "built"
    /\ text = <<>>
    /\ cleaned = <<>>
    /\ again = <<>>
    /\ split = <<>>
    /\ MmrIdle
    /\ FnIdle
    /\ orig_text = <<>>
    /\ length \in Lengths
    /\ tone \in Tones
    /\ sentences = <<>>
    /\ selected_idxs = <<>>
    /\ sents \in SummaryLists
    /\ structured_data = BuildOf(sents, tone)
    /\ RunIdle
    /\ language \in Languages
    /\ gemini_api_key \in BOOLEAN
    /\ response = NotCalled

\* lines 1619-1631 of summarize
TranslateIfNeeded ==
    /\ pc = "built"
    /\ pc' = "responded"
    /\ IF language # "en" /\ gemini_api_key
       THEN \E outcome \in OutcomesFor(tone) :
              /\ response' = outcome
              /\ \E r \in { translate_summary_with_gemini(
                                structured_data.abstract, structured_data.sections,
                                language, tone, gemini_api_key, outcome) } :
                    structured_data' =
                        [structured_data EXCEPT
                            !.abstract = r[1],
                            !.sections = IF tone = "academic" THEN r[2] ELSE @]
       ELSE UNCHANGED <<response, structured_data>>
    /\ UNCHANGED <<textVars, mmrVars, orig_text, length, tone, sentences,
                   selected_idxs, sents, run, first_run, library,
                   language, gemini_api_key, fnVars>>

NextTranslate == TranslateIfNeeded

SpecTranslate == InitTranslate /\ [][NextTranslate]_vars

\* C27: a failing translation leaves the summary as it was built: when the
\* service raises or its answer cannot be parsed, and when the language is
\* "en" or no key is set (the service is then not called), the response
\* carries the abstract and the sections of build_structured_summary; and
\* translate_summary_with_gemini itself returns its arguments for "en" and
\* without a key, whatever the service would do.
C27_TranslationFailureKeepsSummary ==
    /\ pc = "responded" =>
          /\ (language = "en" \/ ~gemini_api_key) => response = NotCalled
          /\ response \in {NotCalled, "raised", "no json", "no object"} =>
                structured_data = BuildOf(sents, tone)
    /\ pc = "built" =>
          \A outcome \in ServiceOutcomes :
              (language = "en" \/ ~gemini_api_key) =>
                  translate_summary_with_gemini(
                      structured_data.abstract, structured_data.sections,
                      language, tone, gemini_api_key, outcome)
                    = <<structured_data.abstract, structured_data.sections>>

\* the academic summary of a request in another language, with sections,
\* after an answer of the service that is no JSON
C27_Witness ==
    /\ pc = "responded"
    /\ language = "hi"
    /\ gemini_api_key
    /\ tone = "academic"
    /\ response = "no json"
    /\ structured_data.sections # <<>>
    /\ structured_data.abstract # <<>>

\* ------------------------------------------------------------------------
\* The target count across the length settings
\* ------------------------------------------------------------------------

\* C28: for a document of more than 3 sentences the target count is at
\* least 1 and at most n, and it does not go down from short to medium
\* and from medium to long.
C28_TargetGrowsWithLength ==
    (pc = "target_done" /\ n_sentences > 3) =>
        /\ 1 <= k /\ k <= n_sentences
        /\ k = TargetK(n_sentences, length)
        /\ length = "short" => k <= TargetK(n_sentences, "medium")
        /\ length = "medium" =>
              /\ TargetK(n_sentences, "short") <= k
              /\ k <= TargetK(n_sentences, "long")
        /\ length = "long" => TargetK(n_sentences, "medium") <= k

\* 60 sentences, medium: 10 sentences, with 4 for short and 20 for long
C28_Witness ==
    /\ pc = "target_done"
    /\ n_sentences = 60
    /\ length = "medium"
    /\ k = 10
    /\ TargetK(60, "short") = 4
    /\ TargetK(60, "long") = 20

\* ------------------------------------------------------------------------
\* SpecNested: the selection for medium and for long on documents of 10
\* sentences and more, where the two target counts differ
\* ------------------------------------------------------------------------

\* the most sentences of a document in SpecNested
MaxNestedLen == 14

\* which sentences of a document are similar, in five kinds of document:
\* none, all, neighbours, every second one, groups of three
Similar(kind, i, j) ==
    IF kind = 1 THEN FALSE
    ELSE IF kind = 2 THEN TRUE
    ELSE IF kind = 3 THEN i - j \in {-1, 1}
    ELSE IF kind = 4 THEN (i + j) % 2 = 0
    ELSE i \div 3 = j \div 3

\* sim_mat of these documents of m sentences, the diagonal zeroed
SampleMatrices(m) ==
    { [p \in (0..(m - 1)) \X (0..(m - 1)) |->
          IF p[1] # p[2] /\ Similar(kind, p[1], p[2]) THEN SimScale ELSE 0]
      : kind \in 1..5 }

\* summarize_extractive with length medium or long, at the call of
\* textrank_scores
InitNested ==
    /\ pc = "rank_call"
    /\ text = <<>>
    /\ cleaned = <<>>
    /\ again = <<>>
    /\ split = <<>>
    /\ orig_text = <<>>
    /\ length \in {"medium", "long"}
    /\ tone = ""
    /\ sentences = <<>>
    /\ selected_idxs = <<>>
    /\ sents = <<>>
    /\ structured_data = EmptyData
    /\ RunIdle
    /\ TransIdle
    /\ best_cat = ""
    /\ \E m \in 10..MaxNestedLen :
          /\ n_sentences = m
          /\ sim_mat \in SampleMatrices(m)
          /\ pagerank \in PageRankOutcomes(m)
          /\ k = TargetK(m, length)
    /\ lambda_param = LambdaOf(length)
    /\ scores_dict = <<>>
    /\ selected = <<>>
    /\ candidates = {}

SpecNested == InitNested /\ [][NextRank]_vars

\* the elements of a list
Elements(l) == { l[j] : j \in 1..Len(l) }

\* C29: on the same document the sentences selected for medium are among
\* the sentences selected for long.
C29_MediumWithinLong ==
    (pc = "mmr_done" /\ length = "long") =>
        Elements(mmr(scores_dict, sim_mat, TargetK(n_sentences, "medium"),
                     LambdaOf("medium")))
            \subseteq Elements(selected)

\* 13 sentences, long: 12 are selected and one is left out, while medium
\* selects 6
C29_Witness ==
    /\ pc = "mmr_done"
    /\ length = "long"
    /\ n_sentences = 13
    /\ Len(selected) = 12
    /\ TargetK(13, "medium") = 6
    /\ \E i, j \in 0..12 : scores_dict[i] # scores_dict[j]

\* C30: a document of more than 3 sentences gets a summary of fewer
\* sentences than it has, whatever the length setting, and a document of
\* 4 to 9 sentences gets exactly 3.
C30_SummaryShorterThanDocument ==
    (pc = "target_done" /\ n_sentences > 3) =>
        /\ k < n_sentences
        /\ n_sentences \in 4..9 => k = 3

====
